---- MODULE Spec2Model ----
(***************************************************************************)
(* Model of the book-generation workflow of app/models/bookgeneration.py:  *)
(* the LangGraph state graph built in BookGeneration.__init__, its fifteen *)
(* nodes and its four routing functions, together with the spreadsheet,    *)
(* the manuscript files and the summary store the nodes act on.            *)
(*                                                                         *)
(* Texts are sequences of atoms.  An atom is one character ("y", "\n") or  *)
(* an opaque run of characters that no operation of the program looks      *)
(* into (a word of free text, the rule "---").  Texts the program compares *)
(* with a literal are written character by character.                      *)
(***************************************************************************)
EXTENDS Integers, Sequences, FiniteSets, TLC

\* Number of chapters a run of the model may generate (the program has no cap).
MaxChapters == 2

\* Number of times the process may crash and main() be started again.
MaxCrashes == 1

\* A crash is modelled only while at most this many nodes have run.
MaxCrashDepth == 6

\* Number of callers that use the summary store at the same time.
NumWriters == 2

\* Number of tasks that call get_supabase_client.
NumTasks == 4

VARIABLES
    node,        \* the node the graph executes next, or "END"
    error,       \* "none", or the exception that ended the run
    state,       \* the LangGraph State: a dict from the keys written so far to values
    excel,       \* row 2 of the spreadsheet: column name -> cell value
    book_file,   \* content of "<sanitized_title>.txt"
    final_file,  \* content of "<sanitized_title>_FINAL.txt"
    db,          \* the documents of the summary collection
    trace,       \* history: the nodes executed, each with what it read from the human
    io_log,      \* history: the writes made to files, spreadsheet and summary store
    file0,       \* history: content of the manuscript file when the first run started
    notified,    \* history: what _send_email did in the last node ("none": not called)
    crashes,     \* number of process crashes so far
    calls,       \* the update_book_chapters calls in progress, one per caller
    unique_index, \* whether the collection has the unique index on book_title
    client,      \* the module global _client of services/supabase.py
    created,     \* history: the number of Supabase clients created so far
    tasks        \* the get_supabase_client calls in progress, one per task

vars == <<node, error, state, excel, book_file, final_file, db, trace, io_log, file0,
          notified, crashes, calls, unique_index, client, created, tasks>>

---------------------------------------------------------------------------
(* Python values *)

\* Python's None: a value different from every text of the model.
None == <<"<None>">>

\* The empty string.
EmptyStr == << >>

\* bool(x) for x a text or None.
Truthy(x) == x # None /\ x # EmptyStr

UPPER == <<"A","B","C","D","E","F","G","H","I","J","K","L","M",
           "N","O","P","Q","R","S","T","U","V","W","X","Y","Z">>
LOWER == <<"a","b","c","d","e","f","g","h","i","j","k","l","m",
           "n","o","p","q","r","s","t","u","v","w","x","y","z">>

LowerAtom(c) ==
    IF \E i \in DOMAIN UPPER : UPPER[i] = c
    THEN LOWER[CHOOSE i \in DOMAIN UPPER : UPPER[i] = c]
    ELSE c

\* str.lower()
Lower(s) == [i \in DOMAIN s |-> LowerAtom(s[i])]

Whitespace == {" ", "\n", "\t"}

RECURSIVE LStrip(_)
LStrip(s) ==
    IF s # << >> /\ Head(s) \in Whitespace THEN LStrip(Tail(s)) ELSE s

RECURSIVE RStrip(_)
RStrip(s) ==
    IF s # << >> /\ s[Len(s)] \in Whitespace
    THEN RStrip(SubSeq(s, 1, Len(s) - 1))
    ELSE s

\* str.strip()
Strip(s) == RStrip(LStrip(s))

\* "".join(parts)
RECURSIVE Join(_)
Join(parts) ==
    IF parts = << >> THEN << >> ELSE Head(parts) \o Join(Tail(parts))

Digits == <<"1","2","3","4","5","6","7","8","9">>

\* str(n) inside an f-string, for the chapter numbers of the model
ToStr(n) == <<Digits[n]>>

---------------------------------------------------------------------------
(* The LangGraph state *)

\* state.get(k): None when the key was never written
Get(s, k) == IF k \in DOMAIN s THEN s[k] ELSE None

\* state.get(k, default)
GetOr(s, k, default) == IF k \in DOMAIN s THEN s[k] ELSE default

\* A node's returned dict is merged key by key into the state (each key is a
\* last-value channel; "messages" is never returned by a node).
Merge(s, delta) ==
    [k \in (DOMAIN s) \cup (DOMAIN delta) |->
        IF k \in DOMAIN delta THEN delta[k] ELSE s[k]]

EmptyDict == [k \in {} |-> None]

---------------------------------------------------------------------------
(* The spreadsheet *)

Columns == {"title", "notes_before_outline", "outline_generated_by_llm",
            "notes_on_outline_after", "chapter_notes",
            "final_review_notes_status", "final_review_notes"}

\* _sync_read_excel: the header/value dict of row 2, or {} when no cell of the
\* row is truthy.
SyncReadExcel(sheet) ==
    IF \A c \in DOMAIN sheet : ~Truthy(sheet[c]) THEN EmptyDict ELSE sheet

\* _sync_write_excel(column_name, content)
SyncWriteExcel(sheet, column_name, content) ==
    [c \in (DOMAIN sheet) \cup {column_name} |->
        IF c = column_name THEN content ELSE sheet[c]]

---------------------------------------------------------------------------
(* Files *)

IllegalChars == {"\\", "/", "*", "?", ":", "\"", "<", ">", "|"}

\* _sanitize_filename: re.sub(r'[\\/*?:"<>|]', "", filename)
SanitizeFilename(filename) ==
    SelectSeq(filename, LAMBDA c : c \notin IllegalChars)

\* chapter_header = f"\n\n---\n\nChapter {chapter_num}\n\n---\n\n"
ChapterHeader(n) ==
    <<"\n", "\n", "---", "\n", "\n", "Chapter", " ">> \o ToStr(n)
        \o <<"\n", "\n", "---", "\n", "\n">>

\* f"\n\n---\n\nChapter {i+1}\n\n---\n\n{content}" for i, content in enumerate(chapters)
ChapterBlocks(chapters) ==
    [i \in DOMAIN chapters |-> ChapterHeader(i) \o chapters[i]]

\* all_chapters_text of regenerate_chapter
AllChaptersText(chapters) == Strip(Join(ChapterBlocks(chapters)))

---------------------------------------------------------------------------
(* The text-generation backend: what the model lets chain.ainvoke return.  *)
(* The outputs are tagged with the request they answer; a revised chapter  *)
(* may end with a newline.                                                 *)

OutlineOutputs == { <<"outline">> }

ChapterOutputs(n) == { <<"draft">> \o ToStr(n) }

RevisionOutputs(n) ==
    { <<"revised">> \o ToStr(n), <<"revised">> \o ToStr(n) \o <<"\n">> }

SummaryOf(chapter_content) == <<"summary of ">> \o chapter_content

FinalBookOutputs == { <<"final book">> }

---------------------------------------------------------------------------
(* What the human may put in the spreadsheet or type at a prompt *)

Titles == { None, <<"T">>, <<"T", "?">> }

NotesBefore == { None, <<"N">> }

\* the manuscript file may exist from an earlier run
InitialFiles == { << >>, ChapterHeader(1) \o <<"stale">> }

OutlineFeedbacks == { None, <<"o","k">>, <<"make it darker">> }

ChapterNotes == { None, <<"o","k">>, <<"please add more dialogue">> }

Decisions == { <<"y","e","s">>, <<"Y","e","s">>, <<"y">>, <<"Y">>, <<"n","o">> }

Statuses == { None, <<"p","e","n","d","i","n","g">>,
              <<"P","e","n","d","i","n","g">>,
              <<"c","o","m","p","l","e","t","e","d">> }

ReviewNotes == { None, <<"n","o","n","e">>, <<"fix chapter 2 pacing">> }

---------------------------------------------------------------------------
(* Routing functions *)

\* A faulty outline router: a title alone is enough to go on.
decide_to_generate_outline_title_only(s) ==
    IF Truthy(Get(s, "title")) THEN "continue" ELSE "stop"

decide_to_generate_outline(s) ==
    IF Truthy(Get(s, "title")) /\ Truthy(Get(s, "notes_before_outline"))
    THEN "continue" ELSE "stop"

\* A faulty chapter router: it skips regeneration on a vocabulary of approving
\* words instead of on empty feedback only.
decide_to_regenerate_chapter_vocabulary(s) ==
    LET fb == Get(s, "chapter_feedback")
    IN  IF ~Truthy(fb)
           \/ Lower(Strip(fb)) \in {<<"o","k">>, <<"g","o","o","d">>,
                                    <<"n","e","x","t">>}
        THEN "skip" ELSE "continue"

\* A faulty chapter router: its label for regenerating is not a key of the
\* table of its edge.
decide_to_regenerate_chapter_unmapped(s) ==
    IF Truthy(Get(s, "chapter_feedback")) THEN "regenerate" ELSE "skip"

decide_to_regenerate_chapter(s) ==
    IF Truthy(Get(s, "chapter_feedback")) THEN "continue" ELSE "skip"

\* A faulty advance router: any answer containing the letter y continues.
should_generate_next_chapter_contains_y(s) ==
    LET d == Get(s, "user_decision")
    IN  IF d # None /\ \E i \in DOMAIN d : d[i] = "y" THEN "continue" ELSE "stop"

should_generate_next_chapter(s) ==
    IF Get(s, "user_decision") = <<"y","e","s">> THEN "continue" ELSE "stop"

\* state.get("final_review_notes_status", "").lower() raises AttributeError
\* when the key holds None
decide_on_final_revision_raises(s) ==
    GetOr(s, "final_review_notes_status", EmptyStr) = None

\* A faulty final router: the status is compared without lower-casing it.
decide_on_final_revision_case_sensitive(s) ==
    IF GetOr(s, "final_review_notes_status", EmptyStr) = <<"p","e","n","d","i","n","g">>
       /\ Truthy(Get(s, "final_review_notes"))
    THEN "revise" ELSE "finish"

decide_on_final_revision(s) ==
    LET status == Lower(GetOr(s, "final_review_notes_status", EmptyStr))
        notes  == Get(s, "final_review_notes")
    IN  IF status = <<"p","e","n","d","i","n","g">> /\ Truthy(notes)
        THEN "revise" ELSE "finish"

\* The label -> node tables of add_conditional_edges
AfterReadLocalExcel(label) ==
    IF label = "continue" THEN "generate_outline" ELSE "finish"

\* A faulty table: an approved chapter goes to the advance decision unsummarised.
AfterReadChapterFeedbackSkipsSummary(label) ==
    IF label = "continue" THEN "regenerate_chapter" ELSE "ask_for_next_chapter"

AfterReadChapterFeedback(label) ==
    IF label = "continue" THEN "regenerate_chapter"
    ELSE "generate_chapter_summary_and_update_db"

\* A faulty table: "stop" goes past the final review.
AfterAskForNextChapterSkipsReview(label) ==
    IF label = "continue" THEN "generate_chapter" ELSE "finish"

AfterAskForNextChapter(label) ==
    IF label = "continue" THEN "generate_chapter" ELSE "ask_for_final_review"

AfterReadFinalReviewNotes(label) ==
    IF label = "revise" THEN "perform_final_revision" ELSE "finish"

\* The graph as __init__ declares it: add_edge(a, b) as the pair <<a, b>>
StaticEdges ==
    { <<"START", "read_local_excel">>,
      <<"generate_outline", "write_outline_to_excel">>,
      <<"write_outline_to_excel", "human_feedback_interrupt">>,
      <<"human_feedback_interrupt", "read_feedback_from_excel">>,
      <<"read_feedback_from_excel", "generate_chapter">>,
      <<"generate_chapter", "human_feedback_on_chapter">>,
      <<"human_feedback_on_chapter", "read_chapter_feedback">>,
      <<"regenerate_chapter", "generate_chapter_summary_and_update_db">>,
      <<"generate_chapter_summary_and_update_db", "ask_for_next_chapter">>,
      <<"ask_for_final_review", "read_final_review_notes">>,
      <<"perform_final_revision", "finish">>,
      <<"finish", "END">> }

\* The nodes that add_conditional_edges gives a routing function
RoutingNodes ==
    {"read_local_excel", "read_chapter_feedback", "ask_for_next_chapter",
     "read_final_review_notes"}

\* add_conditional_edges(n, f, table): the table of node n, label -> node
ConditionalTable(n) ==
    CASE n = "read_local_excel" ->
            ("continue" :> "generate_outline") @@ ("stop" :> "finish")
      [] n = "read_chapter_feedback" ->
            ("continue" :> "regenerate_chapter")
               @@ ("skip" :> "generate_chapter_summary_and_update_db")
      [] n = "ask_for_next_chapter" ->
            ("continue" :> "generate_chapter") @@ ("stop" :> "ask_for_final_review")
      [] n = "read_final_review_notes" ->
            ("revise" :> "perform_final_revision") @@ ("finish" :> "finish")

\* add_conditional_edges(n, f, table): the label f returns on state s
RoutingLabel(n, s) ==
    CASE n = "read_local_excel"        -> decide_to_generate_outline(s)
      [] n = "read_chapter_feedback"   -> decide_to_regenerate_chapter(s)
      [] n = "ask_for_next_chapter"    -> should_generate_next_chapter(s)
      [] n = "read_final_review_notes" -> decide_on_final_revision(s)

\* The nodes the graph runs after node n has produced state s: the targets
\* of all edges that leave n
Successors(n, s) ==
    {e[2] : e \in {d \in StaticEdges : d[1] = n}}
       \cup (IF n \in RoutingNodes
             THEN {ConditionalTable(n)[RoutingLabel(n, s)]} ELSE {})

\* Whether the routing function of node n raises on state s
RoutingRaises(n, s) ==
    n = "read_final_review_notes" /\ decide_on_final_revision_raises(s)

---------------------------------------------------------------------------
(* History bookkeeping *)

Ran(name, read) == Append(trace, [node |-> name, read |-> read])

Wrote(entries) == io_log \o entries

Running(name) == node = name /\ error = "none"

---------------------------------------------------------------------------
(* Calls that can fail *)

\* What _send_email can do: return at once because a credential is missing,
\* send the message, or fail inside the SMTP block.
EmailOutcomes == {"skipped", "sent", "failed"}

\* A faulty _send_email: the SMTP error is not caught.
SendEmailRaisesOnFailure(outcome) == outcome = "failed"

\* Whether _send_email raises: the missing-credentials case returns, and the
\* SMTP block is inside try / except Exception, which only prints.
SendEmailRaises(outcome) == FALSE

\* _sync_write_excel raises RuntimeError before the node has changed anything.
ExcelWriteFails ==
    /\ error' = "RuntimeError"
    /\ notified' = "none"
    /\ UNCHANGED <<node, state, excel, book_file, final_file, db, trace, io_log, file0,
                   crashes, calls, unique_index, client, created, tasks>>

\* A faulty abort: text was already written to the manuscript when the
\* generation call failed.
GenerationFailsAfterWrite ==
    /\ error' = "GenerationError"
    /\ book_file' = book_file \o <<"partial">>
    /\ notified' = "none"
    /\ UNCHANGED <<node, state, excel, final_file, db, trace, io_log, file0,
                   crashes, calls, unique_index, client, created, tasks>>

\* llm.ainvoke raises.  It is the first effect of every node that calls it,
\* and no node catches its exception: the node ends there, the graph step
\* fails and no delta is committed.
GenerationFails ==
    /\ error' = "GenerationError"
    /\ notified' = "none"
    /\ UNCHANGED <<node, state, excel, book_file, final_file, db, trace, io_log, file0,
                   crashes, calls, unique_index, client, created, tasks>>

---------------------------------------------------------------------------
(* Callers of the summary store *)

Writers == 1 .. NumWriters

\* A caller that is not inside update_book_chapters
Idle == [pc |-> "idle", book_title |-> None, chapters_data |-> << >>]

\* The tasks of the event loop that call get_supabase_client
Tasks == 1 .. NumTasks

\* The n-th client object that acreate_client makes
NewClient(n) == <<"AsyncClient", n>>

\* A task that has not called get_supabase_client
NotCalling == [pc |-> "idle", returned |-> None]

\* The variables of the Supabase client module
supabase_vars == <<client, created, tasks>>

---------------------------------------------------------------------------
\* initial_state = {"messages": [HumanMessage(content="Start")]}
initial_state == [k \in {"messages"} |-> <<"Start">>]

Init ==
    /\ node = "read_local_excel"
    /\ error = "none"
    /\ state = initial_state
    /\ \E t \in Titles, n \in NotesBefore :
          excel = [c \in Columns |->
                      IF c = "title" THEN t
                      ELSE IF c = "notes_before_outline" THEN n
                      ELSE None]
    /\ book_file \in InitialFiles
    /\ file0 = book_file
    /\ final_file = << >>
    /\ db = << >>
    /\ trace = << >>
    /\ io_log = << >>
    /\ notified = "none"
    /\ crashes = 0
    /\ calls = [w \in Writers |-> Idle]
    /\ unique_index = FALSE
    /\ client = None
    /\ created = 0
    /\ tasks = [t \in Tasks |-> NotCalling]

---------------------------------------------------------------------------
(* Nodes.  Each action is one node followed by the edge that leaves it.    *)

\* read_local_excel, then the conditional edge on decide_to_generate_outline
\* A faulty delta: the title is used as the file name as it is.
ReadLocalExcelDeltaUnsanitized(data) ==
    [title |-> Get(data, "title"),
     notes_before_outline |-> Get(data, "notes_before_outline"),
     chapters |-> << >>,
     chapter_summaries |-> << >>,
     current_chapter_number |-> 1,
     sanitized_title |-> IF Truthy(Get(data, "title")) THEN Get(data, "title") ELSE EmptyStr]

\* A faulty delta: chapters are counted from 0.
ReadLocalExcelDeltaZeroBased(data) ==
    [title |-> Get(data, "title"),
     notes_before_outline |-> Get(data, "notes_before_outline"),
     chapters |-> << >>,
     chapter_summaries |-> << >>,
     current_chapter_number |-> 0,
     sanitized_title |-> IF Truthy(Get(data, "title"))
                         THEN SanitizeFilename(Get(data, "title")) ELSE EmptyStr]

ReadLocalExcelDelta(data) ==
    LET title == Get(data, "title")
        notes == Get(data, "notes_before_outline")
    IN  [title |-> title,
         notes_before_outline |-> notes,
         chapters |-> << >>,
         chapter_summaries |-> << >>,
         current_chapter_number |-> 1,
         sanitized_title |-> IF Truthy(title) THEN SanitizeFilename(title) ELSE EmptyStr]

read_local_excel ==
    /\ Running("read_local_excel")
    /\ state' = Merge(state, ReadLocalExcelDelta(SyncReadExcel(excel)))
    /\ node' = AfterReadLocalExcel(decide_to_generate_outline(state'))
    /\ trace' = Ran("read_local_excel", None)
    /\ UNCHANGED <<error, excel, book_file, final_file, db, io_log, file0, crashes, calls, unique_index, client, created, tasks>>
    /\ notified' = "none"

generate_outline_node ==
    /\ Running("generate_outline")
    /\ \/ GenerationFails
       \/ /\ \E outline \in OutlineOutputs :
                state' = Merge(state, [outline |-> outline])
          /\ node' = "write_outline_to_excel"
          /\ trace' = Ran("generate_outline", None)
          /\ UNCHANGED <<error, excel, book_file, final_file, db, io_log, file0, crashes, calls, unique_index, client, created, tasks>>
          /\ notified' = "none"

write_outline_to_excel ==
    /\ Running("write_outline_to_excel")
    /\ \/ ExcelWriteFails
       \/ /\ excel' = SyncWriteExcel(excel, "outline_generated_by_llm", state["outline"])
          /\ io_log' = Wrote(<<[op |-> "excel", target |-> "outline_generated_by_llm"]>>)
          /\ trace' = Ran("write_outline_to_excel", None)
          /\ \E outcome \in EmailOutcomes :
                /\ notified' = outcome
                /\ IF SendEmailRaises(outcome)
                   THEN error' = "SMTPException" /\ UNCHANGED node
                   ELSE node' = "human_feedback_interrupt" /\ UNCHANGED error
          /\ UNCHANGED <<state, book_file, final_file, db, file0, crashes, calls,
                         unique_index, client, created, tasks>>

\* The run blocks in input(); before pressing Enter the human may fill the
\* 'notes_on_outline_after' cell.
human_feedback_interrupt ==
    /\ Running("human_feedback_interrupt")
    /\ \E fb \in OutlineFeedbacks :
          excel' = [excel EXCEPT !["notes_on_outline_after"] = fb]
    /\ node' = "read_feedback_from_excel"
    /\ trace' = Ran("human_feedback_interrupt", None)
    /\ UNCHANGED <<error, state, book_file, final_file, db, io_log, file0, crashes, calls, unique_index, client, created, tasks>>
    /\ notified' = "none"

ReadFeedbackDelta(data) ==
    [notes_on_outline_after |-> Get(data, "notes_on_outline_after")]

\* A faulty edge: non-empty outline feedback goes back to outline generation.
AfterReadFeedbackFromExcelRevise(s) ==
    IF Truthy(Get(s, "notes_on_outline_after"))
    THEN "generate_outline" ELSE "generate_chapter"

\* The edge that leaves read_feedback_from_excel (add_edge, unconditional)
AfterReadFeedbackFromExcel(s) == "generate_chapter"

read_feedback_from_excel ==
    /\ Running("read_feedback_from_excel")
    /\ state' = Merge(state, ReadFeedbackDelta(SyncReadExcel(excel)))
    /\ node' = AfterReadFeedbackFromExcel(state')
    /\ trace' = Ran("read_feedback_from_excel", state'["notes_on_outline_after"])
    /\ UNCHANGED <<error, excel, book_file, final_file, db, io_log, file0, crashes, calls, unique_index, client, created, tasks>>
    /\ notified' = "none"

\* _sync_append_to_text_file(book_filename, chapter_header + chapter_content)
AppendChapter(file, chapter_num, chapter_content) ==
    file \o ChapterHeader(chapter_num) \o chapter_content

\* A faulty delta: the outline feedback is cleared once a chapter used it.
GenerateChapterDeltaClearsFeedback(s, chapter_content) ==
    [chapters |-> GetOr(s, "chapters", << >>) \o <<chapter_content>>,
     notes_on_outline_after |-> None]

\* return {"chapters": state.get("chapters", []) + [chapter_content]}
GenerateChapterDelta(s, chapter_content) ==
    [chapters |-> GetOr(s, "chapters", << >>) \o <<chapter_content>>]

generate_chapter ==
    /\ Running("generate_chapter")
    /\ \/ GenerationFails
       \/ /\ LET chapter_num == state["current_chapter_number"]
             IN  \E chapter_content \in ChapterOutputs(chapter_num),
                    outcome \in EmailOutcomes :
                    /\ book_file' = AppendChapter(book_file, chapter_num, chapter_content)
                    /\ notified' = outcome
                    /\ IF SendEmailRaises(outcome)
                       THEN error' = "SMTPException" /\ UNCHANGED <<node, state>>
                       ELSE /\ state' = Merge(state,
                                   GenerateChapterDelta(state, chapter_content))
                            /\ node' = "human_feedback_on_chapter"
                            /\ UNCHANGED error
          /\ io_log' = Wrote(<<[op |-> "append", target |-> "book_file"]>>)
          /\ trace' = Ran("generate_chapter", None)
          /\ UNCHANGED <<excel, final_file, db, file0, crashes, calls, unique_index, client, created, tasks>>

\* The run blocks in input(); before pressing Enter the human may fill the
\* 'chapter_notes' cell or leave it as it is.
human_feedback_on_chapter ==
    /\ Running("human_feedback_on_chapter")
    /\ \E fb \in ChapterNotes \cup {excel["chapter_notes"]} :
          excel' = [excel EXCEPT !["chapter_notes"] = fb]
    /\ node' = "read_chapter_feedback"
    /\ trace' = Ran("human_feedback_on_chapter", None)
    /\ UNCHANGED <<error, state, book_file, final_file, db, io_log, file0, crashes, calls, unique_index, client, created, tasks>>
    /\ notified' = "none"

ReadChapterFeedbackDelta(data) ==
    [chapter_feedback |-> Get(data, "chapter_notes")]

read_chapter_feedback ==
    /\ Running("read_chapter_feedback")
    /\ state' = Merge(state, ReadChapterFeedbackDelta(SyncReadExcel(excel)))
    /\ node' = AfterReadChapterFeedback(decide_to_regenerate_chapter(state'))
    /\ trace' = Ran("read_chapter_feedback", state'["chapter_feedback"])
    /\ UNCHANGED <<error, excel, book_file, final_file, db, io_log, file0, crashes, calls, unique_index, client, created, tasks>>
    /\ notified' = "none"

\* A faulty update: the revised text is added after the text it revises.
UpdatedChaptersAppend(chapters, revised_content) ==
    chapters \o <<revised_content>>

\* state['chapters'][:-1] + [revised_content]
UpdatedChapters(chapters, revised_content) ==
    SubSeq(chapters, 1, Len(chapters) - 1) \o <<revised_content>>

\* A faulty rewrite: the file is opened in append mode.
RewriteBookFileAppend(file, updated_chapters) ==
    file \o AllChaptersText(updated_chapters)

\* _sync_write_to_text_file(book_filename, all_chapters_text)
RewriteBookFile(file, updated_chapters) == AllChaptersText(updated_chapters)

regenerate_chapter ==
    /\ Running("regenerate_chapter")
    /\ \/ GenerationFails
       \/ /\ LET chapter_num == state["current_chapter_number"]
             IN  \E revised_content \in RevisionOutputs(chapter_num) :
                    LET updated_chapters == UpdatedChapters(state["chapters"], revised_content)
                    IN  /\ book_file' = RewriteBookFile(book_file, updated_chapters)
                        /\ \/ /\ state' = Merge(state,
                                    [chapters |-> updated_chapters,
                                     chapter_feedback |-> None])
                              /\ excel' = SyncWriteExcel(excel, "chapter_notes", EmptyStr)
                              /\ io_log' = Wrote(<<[op |-> "write", target |-> "book_file"],
                                                   [op |-> "excel", target |-> "chapter_notes"]>>)
                              /\ node' = "generate_chapter_summary_and_update_db"
                              /\ trace' = Ran("regenerate_chapter", None)
                              /\ UNCHANGED error
                           \* _sync_write_excel raises after the file was rewritten
                           \/ /\ error' = "RuntimeError"
                              /\ io_log' = Wrote(<<[op |-> "write", target |-> "book_file"]>>)
                              /\ UNCHANGED <<node, state, excel, trace>>
          /\ UNCHANGED <<final_file, db, file0, crashes, calls, unique_index, client, created, tasks>>
          /\ notified' = "none"

\* A faulty upsert: the new summary is appended whether or not the chapter
\* already has an entry.
UpsertSummaryAlwaysAppend(chapter_summaries, new_summary) ==
    Append(chapter_summaries, new_summary)

\* The upsert loop of generate_chapter_summary_and_update_db
UpsertSummary(chapter_summaries, new_summary) ==
    LET hits == {i \in DOMAIN chapter_summaries :
                    chapter_summaries[i].chapter = new_summary.chapter}
    IN  IF hits # {}
        THEN LET first == CHOOSE i \in hits : \A j \in hits : i <= j
             IN  [chapter_summaries EXCEPT ![first] = new_summary]
        ELSE Append(chapter_summaries, new_summary)

\* MongoDB.update_book_chapters: update_one({"book_title": ...}, {"$set": ...}, upsert=True)
update_book_chapters(docs, book_title, chapters_data) ==
    IF ~Truthy(book_title) \/ chapters_data = << >> THEN docs
    ELSE LET hits == {i \in DOMAIN docs : docs[i].book_title = book_title}
         IN  IF hits # {}
             THEN LET first == CHOOSE i \in hits : \A j \in hits : i <= j
                  IN  [docs EXCEPT ![first].chapters = chapters_data]
             ELSE Append(docs, [book_title |-> book_title, chapters |-> chapters_data])

\* A faulty read: the text summarised is the first chapter's.
LatestChapterContentFirst(chapters) == chapters[1]

\* latest_chapter_content = state["chapters"][-1]
LatestChapterContent(chapters) == chapters[Len(chapters)]

generate_chapter_summary_and_update_db ==
    /\ Running("generate_chapter_summary_and_update_db")
    /\ \/ GenerationFails
       \/ /\ LET current_chapter_num == state["current_chapter_number"]
                 latest_chapter_content == LatestChapterContent(state["chapters"])
                 new_summary == [chapter |-> current_chapter_num,
                                 summary |-> SummaryOf(latest_chapter_content)]
                 chapter_summaries ==
                     UpsertSummary(GetOr(state, "chapter_summaries", << >>), new_summary)
             IN  /\ db' = update_book_chapters(db, state["title"], chapter_summaries)
                 /\ state' = Merge(state, [chapter_summaries |-> chapter_summaries])
          /\ io_log' = Wrote(<<[op |-> "db", target |-> "book_summary"]>>)
          /\ node' = "ask_for_next_chapter"
          /\ trace' = Ran("generate_chapter_summary_and_update_db", None)
          /\ UNCHANGED <<error, excel, book_file, final_file, file0, crashes, calls, unique_index, client, created, tasks>>
          /\ notified' = "none"

\* A faulty advance: the chapter number skips one.
NextChapterNumSkip(current_chapter_number) == current_chapter_number + 2

\* next_chapter_num = state['current_chapter_number'] + 1
NextChapterNum(current_chapter_number) == current_chapter_number + 1

AskForNextChapterDelta(s, decision) ==
    [user_decision |-> Lower(decision),
     current_chapter_number |-> NextChapterNum(s["current_chapter_number"])]

\* The answer typed at the prompt; the model stops asking for more chapters
\* once MaxChapters exist.
ask_for_next_chapter ==
    /\ Running("ask_for_next_chapter")
    /\ \E decision \in Decisions :
          /\ state' = Merge(state, AskForNextChapterDelta(state, decision))
          /\ node' = AfterAskForNextChapter(should_generate_next_chapter(state'))
          /\ node' = "generate_chapter" => Len(state["chapters"]) < MaxChapters
          /\ trace' = Ran("ask_for_next_chapter", decision)
    /\ UNCHANGED <<error, excel, book_file, final_file, db, io_log, file0, crashes, calls, unique_index, client, created, tasks>>
    /\ notified' = "none"

\* The run blocks in input(); before pressing Enter the human may fill the
\* 'final_review_notes' and 'final_review_notes_status' cells.
ask_for_final_review ==
    /\ Running("ask_for_final_review")
    /\ \E status \in Statuses, notes \in ReviewNotes :
          excel' = [excel EXCEPT !["final_review_notes_status"] = status,
                                 !["final_review_notes"] = notes]
    /\ node' = "read_final_review_notes"
    /\ trace' = Ran("ask_for_final_review", None)
    /\ UNCHANGED <<error, state, book_file, final_file, db, io_log, file0, crashes, calls, unique_index, client, created, tasks>>
    /\ notified' = "none"

ReadFinalReviewNotesDelta(data) ==
    [final_review_notes_status |-> Get(data, "final_review_notes_status"),
     final_review_notes |-> Get(data, "final_review_notes")]

\* read_final_review_notes, then the conditional edge on decide_on_final_revision.
\* The routing function runs together with the node, on the state with the
\* node's delta; when it raises, the step fails and the delta is never committed.
read_final_review_notes ==
    /\ Running("read_final_review_notes")
    /\ LET post == Merge(state, ReadFinalReviewNotesDelta(SyncReadExcel(excel)))
       IN  /\ trace' = Ran("read_final_review_notes",
                           <<post["final_review_notes_status"], post["final_review_notes"]>>)
           /\ IF decide_on_final_revision_raises(post)
              THEN /\ error' = "AttributeError"
                   /\ UNCHANGED <<node, state>>
              ELSE /\ state' = post
                   /\ node' = AfterReadFinalReviewNotes(decide_on_final_revision(post))
                   /\ UNCHANGED error
    /\ UNCHANGED <<excel, book_file, final_file, db, io_log, file0, crashes, calls, unique_index, client, created, tasks>>
    /\ notified' = "none"

\* A faulty final write: the revised book overwrites the manuscript file.
WriteFinalBookOverManuscript(book, final, final_book_content) ==
    [book_file |-> final_book_content, final_file |-> final]

\* final_filename = f"{state['sanitized_title']}_FINAL.txt";
\* _sync_write_to_text_file(final_filename, final_book_content)
WriteFinalBook(book, final, final_book_content) ==
    [book_file |-> book, final_file |-> final_book_content]

perform_final_revision ==
    /\ Running("perform_final_revision")
    /\ \/ GenerationFails
       \/ /\ \E final_book_content \in FinalBookOutputs :
                LET files == WriteFinalBook(book_file, final_file, final_book_content)
                IN  /\ book_file' = files.book_file
                    /\ final_file' = files.final_file
          /\ \/ /\ excel' = SyncWriteExcel(
                                SyncWriteExcel(excel, "final_review_notes_status",
                                               <<"c","o","m","p","l","e","t","e","d">>),
                                "final_review_notes", EmptyStr)
                /\ io_log' = Wrote(<<[op |-> "write", target |-> "final_file"],
                                     [op |-> "excel", target |-> "final_review_notes_status"],
                                     [op |-> "excel", target |-> "final_review_notes"]>>)
                /\ trace' = Ran("perform_final_revision", None)
                /\ \E outcome \in EmailOutcomes :
                      /\ notified' = outcome
                      /\ IF SendEmailRaises(outcome)
                         THEN error' = "SMTPException" /\ UNCHANGED node
                         ELSE node' = "finish" /\ UNCHANGED error
             \* the first _sync_write_excel raises after the final file was written
             \/ /\ error' = "RuntimeError"
                /\ io_log' = Wrote(<<[op |-> "write", target |-> "final_file"]>>)
                /\ notified' = "none"
                /\ UNCHANGED <<node, excel, trace>>
             \* the second _sync_write_excel raises: the status is already "completed"
             \/ /\ error' = "RuntimeError"
                /\ excel' = SyncWriteExcel(excel, "final_review_notes_status",
                                           <<"c","o","m","p","l","e","t","e","d">>)
                /\ io_log' = Wrote(<<[op |-> "write", target |-> "final_file"],
                                     [op |-> "excel", target |-> "final_review_notes_status"]>>)
                /\ notified' = "none"
                /\ UNCHANGED <<node, trace>>
          /\ UNCHANGED <<state, db, file0, crashes, calls, unique_index, client, created, tasks>>

finish_node ==
    /\ Running("finish")
    /\ node' = "END"
    /\ trace' = Ran("finish", None)
    /\ UNCHANGED <<error, state, excel, book_file, final_file, db, io_log, file0, crashes, calls, unique_index, client, created, tasks>>
    /\ notified' = "none"

Next ==
    \/ read_local_excel
    \/ generate_outline_node
    \/ write_outline_to_excel
    \/ human_feedback_interrupt
    \/ read_feedback_from_excel
    \/ generate_chapter
    \/ human_feedback_on_chapter
    \/ read_chapter_feedback
    \/ regenerate_chapter
    \/ generate_chapter_summary_and_update_db
    \/ ask_for_next_chapter
    \/ ask_for_final_review
    \/ read_final_review_notes
    \/ perform_final_revision
    \/ finish_node

Spec == Init /\ [][Next]_vars

\* The run as graph.astream drives it: while a node is scheduled the engine
\* runs it, and the human answers every prompt in the end.
SpecLive == Init /\ [][Next]_vars /\ WF_vars(Next)

---------------------------------------------------------------------------
(* Crash and restart *)

\* The process dies between two nodes and main() is started again.  The
\* checkpointer is an InMemorySaver created in __init__, so the new process
\* has no checkpoint of the old one: main() streams initial_state into the
\* graph from START.  The spreadsheet, the files and the summary store are
\* outside the process and stay as they are.
crash_and_restart ==
    /\ error = "none"
    /\ node # "END"
    /\ trace # << >>
    /\ crashes < MaxCrashes
    /\ Len(trace) <= MaxCrashDepth
    /\ crashes' = crashes + 1
    /\ node' = "read_local_excel"
    /\ state' = initial_state
    /\ notified' = "none"
    /\ UNCHANGED <<error, excel, book_file, final_file, db, trace, io_log, file0,
                   calls, unique_index, client, created, tasks>>

NextRestart == Next \/ crash_and_restart

SpecRestart == Init /\ [][NextRestart]_vars

---------------------------------------------------------------------------
(* Concurrent callers of MongoDB.update_book_chapters.  Each caller holds    *)
(* the adapter that get_db returns; get_db constructs MongoDB and never      *)
(* calls initialize(), so the program itself does not create the unique      *)
(* index on book_title: the collection has it only if it was made elsewhere. *)

DbTitles == { <<"T">>, <<"U">>, EmptyStr }

DbChapters ==
    { << >>,
      <<[chapter |-> 1, summary |-> <<"s1">>]>>,
      <<[chapter |-> 1, summary |-> <<"s1">>], [chapter |-> 2, summary |-> <<"s2">>]>> }

\* The documents of the collection that match {"book_title": book_title}
Matching(docs, book_title) == {i \in DOMAIN docs : docs[i].book_title = book_title}

InitDb ==
    /\ node = "read_local_excel"
    /\ error = "none"
    /\ state = initial_state
    /\ excel = [c \in Columns |-> None]
    /\ book_file = << >>
    /\ file0 = << >>
    /\ final_file = << >>
    /\ db = << >>
    /\ trace = << >>
    /\ io_log = << >>
    /\ notified = "none"
    /\ crashes = 0
    /\ calls = [w \in Writers |-> Idle]
    /\ unique_index \in BOOLEAN
    /\ client = None
    /\ created = 0
    /\ tasks = [t \in Tasks |-> NotCalling]

workflow_vars ==
    <<node, error, state, excel, book_file, final_file, trace, io_log, file0,
      notified, crashes>>

\* update_book_chapters is entered: empty arguments return at once, otherwise
\* update_one(..., upsert=True) is sent to the server.
db_call(w) ==
    /\ calls[w].pc = "idle"
    /\ \E book_title \in DbTitles, chapters_data \in DbChapters :
          calls' = [calls EXCEPT ![w] =
                      [pc |-> IF ~Truthy(book_title) \/ chapters_data = << >>
                              THEN "done" ELSE "filter",
                       book_title |-> book_title,
                       chapters_data |-> chapters_data]]
    /\ UNCHANGED <<db, unique_index, workflow_vars, supabase_vars>>

\* The server evaluates the filter of the upsert.
db_filter(w) ==
    /\ calls[w].pc = "filter"
    /\ calls' = [calls EXCEPT ![w].pc =
                    IF Matching(db, calls[w].book_title) # {} THEN "update" ELSE "insert"]
    /\ UNCHANGED <<db, unique_index, workflow_vars, supabase_vars>>

\* The filter matched: $set on the matched document.
db_update(w) ==
    /\ calls[w].pc = "update"
    /\ db' = update_book_chapters(db, calls[w].book_title, calls[w].chapters_data)
    /\ calls' = [calls EXCEPT ![w].pc = "done"]
    /\ UNCHANGED <<unique_index, workflow_vars, supabase_vars>>

\* The filter matched nothing: a document is inserted.  Only a unique index
\* stops the insert when another caller has inserted the title meanwhile; the
\* upsert is then applied as an update or fails with DuplicateKeyError.
db_insert(w) ==
    /\ calls[w].pc = "insert"
    /\ IF unique_index /\ Matching(db, calls[w].book_title) # {}
       THEN \/ db' = update_book_chapters(db, calls[w].book_title, calls[w].chapters_data)
            \/ db' = db
       ELSE db' = Append(db, [book_title |-> calls[w].book_title,
                              chapters |-> calls[w].chapters_data])
    /\ calls' = [calls EXCEPT ![w].pc = "done"]
    /\ UNCHANGED <<unique_index, workflow_vars, supabase_vars>>

NextDb ==
    \E w \in Writers :
       \/ db_call(w)
       \/ db_filter(w)
       \/ db_update(w)
       \/ db_insert(w)

SpecDb == InitDb /\ [][NextDb]_vars

---------------------------------------------------------------------------
(* Concurrent calls of get_supabase_client.  The tasks run on one event      *)
(* loop: a task runs without interruption up to an await, and other tasks    *)
(* run while it waits.                                                       *)

InitSupabase ==
    /\ node = "read_local_excel"
    /\ error = "none"
    /\ state = initial_state
    /\ excel = [c \in Columns |-> None]
    /\ book_file = << >>
    /\ file0 = << >>
    /\ final_file = << >>
    /\ db = << >>
    /\ trace = << >>
    /\ io_log = << >>
    /\ notified = "none"
    /\ crashes = 0
    /\ calls = [w \in Writers |-> Idle]
    /\ unique_index = FALSE
    /\ client = None
    /\ created = 0
    /\ tasks = [t \in Tasks |-> NotCalling]

\* if _client is None: the task starts acreate_client and waits for it;
\* otherwise it returns _client at once.
get_supabase_client_call(t) ==
    /\ tasks[t].pc = "idle"
    /\ tasks' = [tasks EXCEPT ![t] =
                    IF client = None
                    THEN [pc |-> "awaiting", returned |-> None]
                    ELSE [pc |-> "done", returned |-> client]]
    /\ UNCHANGED <<client, created, db, calls, unique_index, workflow_vars>>

\* acreate_client has made a new client: it is assigned to _client and
\* returned.
get_supabase_client_resume(t) ==
    /\ tasks[t].pc = "awaiting"
    /\ created' = created + 1
    /\ client' = NewClient(created')
    /\ tasks' = [tasks EXCEPT ![t] = [pc |-> "done", returned |-> client']]
    /\ UNCHANGED <<db, calls, unique_index, workflow_vars>>

NextSupabase ==
    \E t \in Tasks :
       \/ get_supabase_client_call(t)
       \/ get_supabase_client_resume(t)

SpecSupabase == InitSupabase /\ [][NextSupabase]_vars

---------------------------------------------------------------------------
(* Helpers of the properties *)

LastRan(name) == trace # << >> /\ trace[Len(trace)].node = name

LastRead == trace[Len(trace)].read

\* A step in which node `name` runs to its end (it may still fail at its edge)
Completes(name) == Running(name) /\ trace' # trace

HasRun(name) == \E i \in DOMAIN trace : trace[i].node = name

Summaries(s) == GetOr(s, "chapter_summaries", << >>)

Chapters(s) == GetOr(s, "chapters", << >>)

UniqueChapters(cs) ==
    \A i, j \in DOMAIN cs : cs[i].chapter = cs[j].chapter => i = j

\* What an upsert for chapter n must do to the list `before`.
UpsertContract(before, n, after) ==
    IF \E i \in DOMAIN before : before[i].chapter = n
    THEN /\ Len(after) = Len(before)
         /\ \A i \in DOMAIN before :
               IF before[i].chapter = n
               THEN after[i].chapter = n
               ELSE after[i] = before[i]
    ELSE /\ Len(after) = Len(before) + 1
         /\ SubSeq(after, 1, Len(before)) = before
         /\ after[Len(after)].chapter = n

\* Summary lists with at most one entry per chapter number, of the chapters
\* of the model.
SummaryLists ==
    LET entry(n) == [chapter |-> n, summary |-> <<"old">>]
        nums == 1 .. MaxChapters
    IN  {<< >>} \cup {<<entry(a)>> : a \in nums}
          \cup {<<entry(p[1]), entry(p[2])>> :
                    p \in {q \in nums \X nums : q[1] # q[2]}}

---------------------------------------------------------------------------
\* C1: chapter_summaries never holds two entries with the same chapter number.
\* When generate_chapter_summary_and_update_db runs, the entry of the current
\* chapter is replaced at its position and the length is unchanged if the
\* chapter already has an entry, and exactly one entry is appended otherwise;
\* the same holds of the upsert applied to any list with one entry per chapter.
C1_SummariesUpsert ==
    [][ /\ UniqueChapters(Summaries(state'))
        /\ Completes("generate_chapter_summary_and_update_db") =>
              LET n == state["current_chapter_number"]
                  new == [chapter |-> n, summary |-> <<"new">>]
              IN  /\ UpsertContract(Summaries(state), n, Summaries(state'))
                  /\ \A cs \in SummaryLists :
                        /\ UpsertContract(cs, n, UpsertSummary(cs, new))
                        /\ UniqueChapters(UpsertSummary(cs, new))
                        /\ \A i \in DOMAIN cs :
                              cs[i].chapter = n => UpsertSummary(cs, new)[i] = new
      ]_vars

\* Both chapters of a two-chapter run have their summary, appended in order.
C1_Witness ==
    /\ LastRan("generate_chapter_summary_and_update_db")
    /\ Len(Summaries(state)) = 2
    /\ Summaries(state)[1].chapter = 1
    /\ Summaries(state)[2].chapter = 2

\* C2: current_chapter_number is 1 when it is first set, never decreases, and
\* every change to it is an increase of exactly 1.
C2_ChapterNumberSteps ==
    [][ LET k == "current_chapter_number"
        IN  /\ (k \notin DOMAIN state /\ k \in DOMAIN state') => state'[k] = 1
            /\ k \in DOMAIN state =>
                  /\ k \in DOMAIN state'
                  /\ state'[k] = state[k] \/ state'[k] = state[k] + 1
      ]_vars

\* The advance to chapter 2 has happened and chapter 2 is about to be generated.
C2_Witness ==
    /\ LastRan("ask_for_next_chapter")
    /\ node = "generate_chapter"
    /\ state["current_chapter_number"] = 2

\* C3: current_chapter_number is incremented only when the advance decision is
\* "continue"; after "stop" it is unchanged, so in the final review stage it
\* equals the number of chapters generated.
C3_NoIncrementOnStop ==
    node \in {"ask_for_final_review", "read_final_review_notes",
              "perform_final_revision"}
        => state["current_chapter_number"] = Len(Chapters(state))

---------------------------------------------------------------------------
(* Reading the manuscript file *)

\* The positions at which pat occurs in text.
Occurrences(pat, text) ==
    {i \in 1 .. (Len(text) - Len(pat) + 1) :
        SubSeq(text, i, i + Len(pat) - 1) = pat}

\* The boundary marker of chapter n: the header that generate_chapter writes,
\* without the blank lines before it (regenerate_chapter strips them from the
\* first header of the file).
MarkerLine(n) == LStrip(ChapterHeader(n))

\* The text that follows the one occurrence of marker(n), up to the one
\* occurrence of marker(n + 1) or to the end of the file.
ContentAfter(marker(_), n, text) ==
    LET start == CHOOSE i \in Occurrences(marker(n), text) : TRUE
        next  == Occurrences(marker(n + 1), text)
        stop  == IF next = {} THEN Len(text) + 1 ELSE CHOOSE i \in next : TRUE
    IN  SubSeq(text, start + Len(marker(n)), stop - 1)

OneMarker(marker(_), n, text) == Cardinality(Occurrences(marker(n), text)) = 1

\* C4 as stated: after regenerate_chapter for chapter n, in a run whose
\* manuscript started empty, the file holds exactly one boundary marker of
\* chapter n followed by the revised content, and the markers and contents of
\* chapters 1..n-1 are as before.
C4_RegenerateKeepsMarkers ==
    [][ (Completes("regenerate_chapter") /\ file0 = << >>) =>
          LET n == state["current_chapter_number"]
          IN  /\ OneMarker(MarkerLine, n, book_file')
              /\ ContentAfter(MarkerLine, n, book_file') = state'["chapters"][n]
              /\ \A k \in 1 .. (n - 1) :
                    /\ OneMarker(MarkerLine, k, book_file')
                    /\ OneMarker(MarkerLine, k, book_file)
                    /\ ContentAfter(MarkerLine, k, book_file')
                         = ContentAfter(MarkerLine, k, book_file)
      ]_vars

\* C4 amended: the file is rewritten stripped, so the revised content is in
\* the file without its trailing whitespace; exactly one marker per chapter
\* 1..n, and the
\* contents of chapters 1..n-1 are the texts that chapters holds, as before up
\* to the trailing whitespace an earlier regeneration had stripped.
C4_RegenerateKeepsMarkerLines ==
    [][ (Completes("regenerate_chapter") /\ file0 = << >>) =>
          LET n == state["current_chapter_number"]
          IN  /\ OneMarker(MarkerLine, n, book_file')
              /\ ContentAfter(MarkerLine, n, book_file')
                   = RStrip(state'["chapters"][n])
              /\ state'["chapters"][n] \in RevisionOutputs(n)
              /\ \A k \in 1 .. (n - 1) :
                    /\ OneMarker(MarkerLine, k, book_file')
                    /\ OneMarker(MarkerLine, k, book_file)
                    /\ RStrip(ContentAfter(MarkerLine, k, book_file'))
                         = RStrip(ContentAfter(MarkerLine, k, book_file))
                    /\ ContentAfter(MarkerLine, k, book_file')
                         = state["chapters"][k] \o <<"\n", "\n">>
                    /\ state'["chapters"][k] = state["chapters"][k]
      ]_vars

\* Chapter 2 was regenerated, with a revised text ending in a newline, in a run
\* whose manuscript started empty.
C4_Witness ==
    /\ LastRan("regenerate_chapter")
    /\ file0 = << >>
    /\ state["current_chapter_number"] = 2
    /\ state["chapters"][2] = <<"revised", "2", "\n">>
    /\ book_file = MarkerLine(1) \o state["chapters"][1]
                      \o ChapterHeader(2) \o <<"revised", "2">>

---------------------------------------------------------------------------
(* Words of the human *)

Ok == <<"o","k">>
Yes == <<"y","e","s">>
No == <<"n","o">>
Pending == <<"p","e","n","d","i","n","g">>
NoneWord == <<"n","o","n","e">>
MoreDialogue == <<"please add more dialogue">>
FixPacing == <<"fix chapter 2 pacing">>

\* What a node read, each time it ran.
ReadsOf(name) ==
    LET es == SelectSeq(trace, LAMBDA e : e.node = name)
    IN  [i \in DOMAIN es |-> es[i].read]

NodesRun == [i \in DOMAIN trace |-> trace[i].node]

\* text, trimmed and lower-cased, is empty or one of words
Affirmative(text, words) ==
    ~Truthy(text) \/ Lower(Strip(text)) = EmptyStr \/ Lower(Strip(text)) \in words

---------------------------------------------------------------------------
\* The inputs of the scenario, all read: title "T", notes "N", outline feedback
\* "ok", chapter-1 feedback "please add more dialogue", decision "no", final
\* review notes empty.
C5_Scenario ==
    /\ Get(state, "title") = <<"T">>
    /\ Get(state, "notes_before_outline") = <<"N">>
    /\ ReadsOf("read_feedback_from_excel") = <<Ok>>
    /\ ReadsOf("read_chapter_feedback") = <<MoreDialogue>>
    /\ ReadsOf("ask_for_next_chapter") = <<No>>
    /\ Len(ReadsOf("read_final_review_notes")) = 1
    /\ ~Truthy(ReadsOf("read_final_review_notes")[1][2])

\* C5: in the run with title "T", notes "N", outline feedback "ok", chapter-1
\* feedback "please add more dialogue", advance decision "no" and empty final
\* review notes, once the final notes are read the run has executed outline
\* generation, chapter 1 generation, one regeneration and one summary upsert,
\* and is at the terminal node with one chapter and one summary.
C5_ScenarioReachesTerminal ==
    C5_Scenario =>
        /\ error = "none"
        /\ node \in {"finish", "END"}
        /\ SubSeq(NodesRun, 1, 13) =
              <<"read_local_excel", "generate_outline", "write_outline_to_excel",
                "human_feedback_interrupt", "read_feedback_from_excel",
                "generate_chapter", "human_feedback_on_chapter",
                "read_chapter_feedback", "regenerate_chapter",
                "generate_chapter_summary_and_update_db", "ask_for_next_chapter",
                "ask_for_final_review", "read_final_review_notes">>
        /\ Len(Chapters(state)) = 1
        /\ Len(Summaries(state)) = 1

---------------------------------------------------------------------------
ChapterApprovals ==
    {Ok, <<"g","o","o","d">>, <<"c","o","n","t","i","n","u","e">>,
     <<"n","e","x","t">>, <<"a","p","p","r","o","v","e">>}

\* C6 as stated: after chapter feedback is read the run goes to summarising
\* when the feedback, trimmed and lower-cased, is empty or one of ok, good,
\* continue, next, approve, and to regenerate_chapter otherwise.
C6_ChapterFeedbackVocabulary ==
    LastRan("read_chapter_feedback") =>
        node = IF Affirmative(LastRead, ChapterApprovals)
               THEN "generate_chapter_summary_and_update_db"
               ELSE "regenerate_chapter"

\* C6 amended: the run goes to summarising exactly when the feedback is absent
\* or the empty string; every non-empty feedback, "ok" included, goes to
\* regenerate_chapter.
C6_ChapterFeedbackNonEmpty ==
    LastRan("read_chapter_feedback") =>
        /\ LastRead = Get(state, "chapter_feedback")
        /\ node = IF LastRead = None \/ LastRead = EmptyStr
                  THEN "generate_chapter_summary_and_update_db"
                  ELSE "regenerate_chapter"

\* Feedback "ok" was read and the chapter is about to be regenerated.
C6_Witness ==
    /\ LastRan("read_chapter_feedback")
    /\ LastRead = Ok
    /\ node = "regenerate_chapter"

---------------------------------------------------------------------------
\* C7 as stated: after the final review notes are read the run goes to finish
\* when the notes are empty or one of none, no, skip, and to
\* perform_final_revision for every other notes string (stated of the runs in
\* which the routing function returns).
C7_FinalNotesVocabulary ==
    (LastRan("read_final_review_notes") /\ error = "none") =>
        node = IF Affirmative(LastRead[2], {NoneWord, No, <<"s","k","i","p">>})
               THEN "finish" ELSE "perform_final_revision"

\* C7 amended: the run goes to perform_final_revision exactly when the status,
\* lower-cased, is "pending" and the notes are non-empty, whatever the notes
\* say, and to finish for any other status that is present; when the status
\* cell is empty the routing function raises AttributeError and the run ends
\* at read_final_review_notes.
C7_FinalRouteByStatus ==
    (LastRan("read_final_review_notes")
       /\ error \notin {"GenerationError", "RuntimeError"}) =>
        LET status == LastRead[1]
            notes  == LastRead[2]
        IN  IF status = None
            THEN error = "AttributeError" /\ node = "read_final_review_notes"
            ELSE /\ error = "none"
                 /\ node = IF Lower(status) = Pending /\ notes # None /\ notes # EmptyStr
                           THEN "perform_final_revision" ELSE "finish"

\* Notes "none" with status "Pending" were read and the revision is next.
C7_Witness ==
    /\ LastRan("read_final_review_notes")
    /\ LastRead = << <<"P","e","n","d","i","n","g">>, NoneWord >>
    /\ node = "perform_final_revision"

---------------------------------------------------------------------------
FinalStage == {"ask_for_final_review", "read_final_review_notes",
               "perform_final_revision", "finish"}

FileWrites(log, target) ==
    Cardinality({i \in DOMAIN log :
                    log[i].op \in {"write", "append"} /\ log[i].target = target})

\* C8 as stated: in the final review stage notes "none" cause no write to the
\* manuscript, the finish path changes neither the state nor the manuscript,
\* and notes "fix chapter 2 pacing" with status "pending" cause exactly one
\* write, which overwrites the manuscript with the full revised text.
C8_FinalRevisionOverwritesManuscript ==
    [][ /\ (node \in FinalStage /\ excel["final_review_notes"] = NoneWord)
              => book_file' = book_file
        /\ Running("finish") => state' = state /\ book_file' = book_file
        /\ (Completes("perform_final_revision")
              /\ state["final_review_notes"] = FixPacing
              /\ state["final_review_notes_status"] = Pending)
              => /\ book_file' \in FinalBookOutputs
                 /\ FileWrites(io_log', "book_file") = FileWrites(io_log, "book_file") + 1
      ]_vars

\* C8 amended: no node of the final review stage writes the manuscript file.
\* Notes "none" cause no file write when the status is absent (the run ends
\* with AttributeError) or is not "pending", and a revision when it is; the
\* finish node changes no state and no file; notes "fix chapter 2 pacing" with
\* status "pending" cause exactly one file write, of the full revised text to
\* the separate file <sanitized_title>_FINAL.txt.
C8_FinalRevisionWritesFinalFile ==
    [][ /\ node \in FinalStage => book_file' = book_file
        /\ Running("finish") =>
              UNCHANGED <<state, excel, book_file, final_file, db, io_log>>
        /\ Running("read_final_review_notes") =>
              LET status == excel["final_review_notes_status"]
                  notes  == excel["final_review_notes"]
              IN  /\ UNCHANGED <<final_file, io_log>>
                  /\ notes = NoneWord =>
                        IF status = None THEN error' = "AttributeError"
                        ELSE node' = IF Lower(status) = Pending
                                     THEN "perform_final_revision" ELSE "finish"
                  /\ (notes = FixPacing /\ status = Pending)
                        => node' = "perform_final_revision"
        /\ Completes("perform_final_revision") =>
              /\ final_file' \in FinalBookOutputs
              /\ FileWrites(io_log', "final_file") = FileWrites(io_log, "final_file") + 1
              /\ FileWrites(io_log', "book_file") = FileWrites(io_log, "book_file")
              /\ node' = "finish"
        /\ node' = "END" =>
              FileWrites(io_log', "final_file") =
                 IF \E i \in DOMAIN trace : trace[i].node = "perform_final_revision"
                 THEN 1 ELSE 0
      ]_vars

\* The run ended after a final revision for notes "fix chapter 2 pacing" with
\* status "pending": the revised book is in the _FINAL file and the manuscript
\* still holds the chapters.
C8_Witness ==
    /\ node = "END"
    /\ ReadsOf("read_final_review_notes") = << <<Pending, FixPacing>> >>
    /\ final_file \in FinalBookOutputs
    /\ book_file \notin FinalBookOutputs
    /\ FileWrites(io_log, "final_file") = 1

---------------------------------------------------------------------------
\* C9 as stated: the answer at ask_for_next_chapter is lower-cased and the run
\* goes on to generate the next chapter whenever the answer contains y or yes
\* ("y", "Y", "yes", "Yes"), and otherwise leaves the loop for final review.
C9_ContinueOnAnyY ==
    LastRan("ask_for_next_chapter") =>
        node = IF \E i \in DOMAIN LastRead : Lower(LastRead)[i] = "y"
               THEN "generate_chapter" ELSE "ask_for_final_review"

\* C9 amended: the answer is lower-cased and the run goes on to generate the
\* next chapter exactly when the lower-cased answer is the whole word "yes"
\* ("yes", "Yes"); any other answer, "y" and "Y" included, leaves the loop for
\* final review.
C9_ContinueOnYesOnly ==
    LastRan("ask_for_next_chapter") =>
        /\ state["user_decision"] = Lower(LastRead)
        /\ node = IF Lower(LastRead) = Yes
                  THEN "generate_chapter" ELSE "ask_for_final_review"

\* "Yes" was answered and chapter 2 is next.
C9_Witness ==
    /\ LastRan("ask_for_next_chapter")
    /\ LastRead = <<"Y","e","s">>
    /\ node = "generate_chapter"

---------------------------------------------------------------------------
OutlineApprovals ==
    {Ok, <<"g","o","o","d">>, <<"l","o","o","k","s"," ","g","o","o","d">>,
     <<"a","p","p","r","o","v","e">>}

\* C10 as stated: affirmative or empty outline feedback approves the outline
\* and leads to chapter generation; any other feedback leads to an outline
\* revision step instead, so no chapter exists unless the outline feedback
\* last read was approving.
C10_OutlineRevisionLoop ==
    /\ LastRan("read_feedback_from_excel") =>
          (node = "generate_chapter" <=> Affirmative(LastRead, OutlineApprovals))
    /\ Chapters(state) # << >> =>
          Affirmative(Get(state, "notes_on_outline_after"), OutlineApprovals)

\* C10 amended: every outline feedback, affirmative, empty or other, leads
\* from read_feedback_from_excel straight to generate_chapter; there is no
\* outline revision step: the outline is written once, by generate_outline,
\* and no later node replaces it; the feedback is kept in
\* notes_on_outline_after.
C10_OutlineFeedbackNeverRevises ==
    [][ /\ Running("read_feedback_from_excel") =>
              /\ node' = "generate_chapter"
              /\ state'["notes_on_outline_after"] = excel["notes_on_outline_after"]
        /\ Running("generate_outline") => "outline" \notin DOMAIN state
        /\ "outline" \in DOMAIN state =>
              "outline" \in DOMAIN state' /\ state'["outline"] = state["outline"]
      ]_vars

\* Chapter 1 was generated although the outline feedback asked for changes.
C10_Witness ==
    /\ LastRan("generate_chapter")
    /\ Get(state, "notes_on_outline_after") = <<"make it darker">>
    /\ state["outline"] \in OutlineOutputs
    /\ Len(Chapters(state)) = 1

---------------------------------------------------------------------------
\* C11: every routing function returns a label and never raises on the state
\* it is given at its edge, also when the field it reads is empty or was read
\* as absent from the spreadsheet: no run ends in an exception right after a
\* node that has a conditional edge.
C11_RoutingNeverRaises ==
    \A n \in RoutingNodes : LastRan(n) => error # "AttributeError"

\* C12: whenever a node with a conditional edge completes, the label its
\* routing function returns on the resulting state is a key of the edge's
\* table, and the run continues at the node the table gives for it.
C12_RoutingLabelMapped ==
    [][ \A n \in RoutingNodes :
           (Running(n) /\ error' = "none") =>
              /\ RoutingLabel(n, state') \in DOMAIN ConditionalTable(n)
              /\ node' = ConditionalTable(n)[RoutingLabel(n, state')]
      ]_vars

\* All four conditional edges have been taken; the last one on label "revise".
C12_Witness ==
    /\ \A n \in RoutingNodes : HasRun(n)
    /\ LastRan("read_final_review_notes")
    /\ error = "none"
    /\ RoutingLabel("read_final_review_notes", state) = "revise"
    /\ node = "perform_final_revision"

\* C13: when the process crashes right after the checkpoint of a node and the
\* run is started again, the state is the one the checkpoint held and the run
\* continues at that node's successor, so that no node runs a second time:
\* a manuscript that started empty never holds two headers of one chapter.
C13_ResumeFromCheckpoint ==
    [][ /\ crashes' # crashes => (state' = state /\ node' = node)
        /\ file0 = << >> =>
              \A n \in 1 .. MaxChapters :
                 Cardinality(Occurrences(MarkerLine(n), book_file')) <= 1
      ]_vars

\* C14: the length of chapters never decreases.  generate_chapter makes it
\* one longer by adding an entry after the existing ones, which it leaves as
\* they are; regenerate_chapter keeps the length and changes no entry but
\* that of the current chapter; no other node changes chapters.
C14_ChaptersGrowByAppend ==
    [][ LET before == Chapters(state)
            after  == Chapters(state')
        IN  /\ Len(after) >= Len(before)
            /\ Completes("generate_chapter") =>
                  /\ Len(after) = Len(before) + 1
                  /\ SubSeq(after, 1, Len(before)) = before
            /\ Completes("regenerate_chapter") =>
                  /\ Len(after) = Len(before)
                  /\ \A i \in DOMAIN before :
                        i # state["current_chapter_number"] => after[i] = before[i]
            /\ ~(Completes("generate_chapter") \/ Completes("regenerate_chapter"))
                  => after = before
      ]_vars

\* Chapter 2 was regenerated next to a chapter 1 that still holds its draft.
C14_Witness ==
    /\ LastRan("regenerate_chapter")
    /\ Len(Chapters(state)) = 2
    /\ Chapters(state)[1] \in ChapterOutputs(1)
    /\ Chapters(state)[2] \in RevisionOutputs(2)

\* C15: nodes run one at a time, and after every node that completes without
\* an exception exactly one successor is selected: the target of its one
\* static edge, or the node its routing function's one label stands for.  No
\* node has two edges that apply together.
C15_OneSuccessor ==
    [][ /\ trace' # trace =>
              /\ Len(trace') = Len(trace) + 1
              /\ SubSeq(trace', 1, Len(trace)) = trace
              /\ trace'[Len(trace')].node = node
        /\ (Completes(node) /\ error' = "none") =>
              /\ Cardinality(Successors(node, state')) = 1
              /\ Successors(node, state') = {node'}
      ]_vars

\* A whole run, through regeneration and final revision, has reached END.
C15_Witness ==
    /\ node = "END"
    /\ LastRan("finish")
    /\ HasRun("regenerate_chapter")
    /\ HasRun("perform_final_revision")

\* The nodes that call the language model
GeneratingNodes ==
    {"generate_outline", "generate_chapter", "regenerate_chapter",
     "generate_chapter_summary_and_update_db", "perform_final_revision"}

\* C16: when the generation call fails inside a node, the node ends with the
\* failure and is not run again: the run stops there, and the workflow state,
\* the manuscript file, the final file, the spreadsheet and the summary store
\* are as the previous node left them.
C16_GenerationFailureChangesNothing ==
    [][ /\ error = "none"
        /\ error' = "GenerationError" =>
              /\ node \in GeneratingNodes
              /\ UNCHANGED <<node, state, excel, book_file, final_file, db, io_log>>
      ]_vars

\* The regeneration of chapter 2 failed: both chapters are as generated.
C16_Witness ==
    /\ error = "GenerationError"
    /\ node = "regenerate_chapter"
    /\ Len(Chapters(state)) = 2
    /\ Chapters(state)[2] \in ChapterOutputs(2)
    /\ Truthy(Get(state, "chapter_feedback"))

\* C17: however the update_book_chapters calls for one title interleave, two
\* first writes at the same time included, the store never holds more than
\* one document of that title.
C17_OneDocumentPerTitle ==
    \A t \in DbTitles : Cardinality(Matching(db, t)) <= 1

\* C18: whatever _send_email does in write_outline_to_excel, generate_chapter
\* or perform_final_revision (it finds a credential missing, it sends, or the
\* sending fails), the node ends without an exception, commits the delta it
\* commits when the message is sent (none, the new chapter, none) and the run
\* takes the node's one edge.
C18_EmailFailureIsHarmless ==
    [][ /\ notified' # "none" <=>
              \E n \in {"write_outline_to_excel", "generate_chapter",
                         "perform_final_revision"} : Completes(n)
        /\ notified' \in EmailOutcomes =>
              /\ error' = "none"
              /\ Successors(node, state') = {node'}
              /\ IF node = "generate_chapter"
                 THEN /\ Len(Chapters(state')) = Len(Chapters(state)) + 1
                      /\ Chapters(state')[Len(Chapters(state'))]
                            \in ChapterOutputs(state["current_chapter_number"])
                      /\ state' = Merge(state, [chapters |-> Chapters(state')])
                 ELSE state' = state
      ]_vars

\* The e-mail about chapter 2 could not be sent; the chapter is in the state
\* and the run waits for the human's feedback on it.
C18_Witness ==
    /\ notified = "failed"
    /\ error = "none"
    /\ LastRan("generate_chapter")
    /\ node = "human_feedback_on_chapter"
    /\ Len(Chapters(state)) = 2

\* C19 as stated: notes_on_outline_after is cleared when the edge after the
\* outline feedback gate has used it, so it is unset in every state from the
\* first generate_chapter onward.
C19_OutlineFeedbackCleared ==
    HasRun("generate_chapter") => ~Truthy(Get(state, "notes_on_outline_after"))

\* C19 amended: notes_on_outline_after is never cleared.  It is written by
\* read_feedback_from_excel only, with the value of the spreadsheet cell, and
\* every other node leaves it as it is: from the first generate_chapter
\* onward it is the outline feedback that was read, empty or not.
C19_OutlineFeedbackKept ==
    [][ LET k == "notes_on_outline_after"
        IN  /\ Completes("read_feedback_from_excel") =>
                  (k \in DOMAIN state' /\ state'[k] = excel[k])
            /\ ~Running("read_feedback_from_excel") =>
                  /\ k \in DOMAIN state' <=> k \in DOMAIN state
                  /\ k \in DOMAIN state => state'[k] = state[k]
            /\ HasRun("generate_chapter") =>
                  /\ k \in DOMAIN state
                  /\ \E i \in DOMAIN trace :
                        /\ trace[i].node = "read_feedback_from_excel"
                        /\ trace[i].read = state[k]
      ]_vars

\* Chapter 2 has been generated and the outline feedback read before
\* chapter 1 is still in the state.
C19_Witness ==
    /\ LastRan("generate_chapter")
    /\ Len(Chapters(state)) = 2
    /\ Get(state, "notes_on_outline_after") = <<"make it darker">>
    /\ excel["notes_on_outline_after"] = <<"make it darker">>

TitleKeys == {"title", "sanitized_title", "notes_before_outline"}

\* C20: title, sanitized_title and notes_before_outline are written by
\* read_local_excel only, which finds none of them in the state and sets
\* title and notes_before_outline to the spreadsheet's cells and
\* sanitized_title to the title without the characters a file name may not
\* hold; every other node leaves the three as they are.
C20_TitleFieldsWrittenOnce ==
    [][ /\ ~Running("read_local_excel") =>
              \A k \in TitleKeys :
                 /\ k \in DOMAIN state' <=> k \in DOMAIN state
                 /\ k \in DOMAIN state => state'[k] = state[k]
        /\ Completes("read_local_excel") =>
              /\ TitleKeys \cap DOMAIN state = {}
              /\ state'["title"] = excel["title"]
              /\ state'["notes_before_outline"] = excel["notes_before_outline"]
              /\ state'["sanitized_title"] =
                    IF Truthy(excel["title"])
                    THEN SelectSeq(excel["title"], LAMBDA c : c \notin IllegalChars)
                    ELSE EmptyStr
      ]_vars

\* A run for the title "T?" has ended: its files were named "T" all along.
C20_Witness ==
    /\ node = "END"
    /\ state["title"] = <<"T", "?">>
    /\ state["sanitized_title"] = <<"T">>
    /\ state["notes_before_outline"] = <<"N">>
    /\ Len(Chapters(state)) = 2

---------------------------------------------------------------------------
\* The node at position i of the nodes run so far, "-" beyond the last one
NodeAt(i) == IF i \in DOMAIN trace THEN trace[i].node ELSE "-"

\* The positions before i at which node `name` ran
RunsBefore(name, i) == {j \in 1 .. (i - 1) : NodeAt(j) = name}

\* The nodes run from position i on are a beginning of the sequence ns
Follows(i, ns) == \A k \in DOMAIN ns : NodeAt(i + k) \in {ns[k], "-"}

SummariesMatch(cs, chapters) ==
    \A k \in DOMAIN cs :
       /\ cs[k].chapter \in DOMAIN chapters
       /\ cs[k].summary = SummaryOf(chapters[cs[k].chapter])

\* C22: the summary kept for chapter n, in chapter_summaries and in the
\* store, is the summary of the text that chapters holds for chapter n: the
\* revised text when the chapter was regenerated.  regenerate_chapter is
\* followed directly by the summary node, runs at most once between two
\* generate_chapter, and never runs between a chapter's summary and the
\* generation of the next chapter.
C22_SummaryOfFinalText ==
    /\ SummariesMatch(Summaries(state), Chapters(state))
    /\ \A d \in DOMAIN db : SummariesMatch(db[d].chapters, Chapters(state))
    /\ \A i \in DOMAIN trace :
          /\ NodeAt(i) = "regenerate_chapter" =>
                /\ Follows(i, <<"generate_chapter_summary_and_update_db">>)
                /\ \A j \in RunsBefore("regenerate_chapter", i) :
                      \E g \in RunsBefore("generate_chapter", i) : j < g
                /\ \A j \in RunsBefore("generate_chapter_summary_and_update_db", i) :
                      \E g \in RunsBefore("generate_chapter", i) : j < g

\* Chapter 2 was regenerated and then summarised: its summary is that of the
\* revised text.
C22_Witness ==
    /\ LastRan("generate_chapter_summary_and_update_db")
    /\ Len(Summaries(state)) = 2
    /\ Chapters(state)[2] \in RevisionOutputs(2)
    /\ Summaries(state)[2].summary = SummaryOf(Chapters(state)[2])
    /\ db # << >> /\ db[1].chapters = Summaries(state)

\* C23: when the spreadsheet gives no title or no notes_before_outline, the
\* run goes from read_local_excel to finish and ends there: no other node
\* runs, no outline and no chapter exist, and the manuscript file, the final
\* file, the spreadsheet and the summary store are as they were.
C23_MissingInputEndsRun ==
    (HasRun("read_local_excel")
       /\ ~(Truthy(state["title"]) /\ Truthy(state["notes_before_outline"]))) =>
        /\ node \in {"finish", "END"}
        /\ error = "none"
        /\ \A i \in DOMAIN trace : NodeAt(i) \in {"read_local_excel", "finish"}
        /\ "outline" \notin DOMAIN state
        /\ Chapters(state) = << >>
        /\ book_file = file0
        /\ final_file = << >>
        /\ db = << >>
        /\ io_log = << >>
        /\ excel = [c \in Columns |->
                      IF c = "title" THEN state["title"]
                      ELSE IF c = "notes_before_outline"
                           THEN state["notes_before_outline"]
                      ELSE None]

\* A run for a spreadsheet with a title and no notes has ended after two nodes.
C23_Witness ==
    /\ node = "END"
    /\ state["title"] = <<"T">>
    /\ state["notes_before_outline"] = None
    /\ Len(trace) = 2
    /\ book_file = file0

\* C24: whenever regenerate_chapter or generate_chapter_summary_and_update_db
\* is about to run, chapters has current_chapter_number entries, so that its
\* last entry, which these nodes read and replace, is the current chapter's;
\* whenever generate_chapter is about to run, chapters has
\* current_chapter_number - 1 entries.
C24_ChaptersLengthAtNodeStart ==
    /\ node \in {"regenerate_chapter", "generate_chapter_summary_and_update_db"} =>
          /\ Len(Chapters(state)) = state["current_chapter_number"]
          /\ LatestChapterContent(Chapters(state))
                = Chapters(state)[state["current_chapter_number"]]
    /\ node = "generate_chapter" =>
          Len(Chapters(state)) = state["current_chapter_number"] - 1

\* The second chapter is about to be regenerated.
C24_Witness ==
    /\ Running("regenerate_chapter")
    /\ state["current_chapter_number"] = 2
    /\ Len(Chapters(state)) = 2

\* C25: in a run whose manuscript started empty, in every state between two
\* nodes and in every state in which a node has ended with an error, the
\* manuscript file holds one block per entry of chapters, numbered from 1 in
\* order, each with the text that chapters holds for it (compared without
\* trailing whitespace), and no block of a further chapter.
C25_FileMatchesChapters ==
    file0 = << >> =>
        /\ \A n \in 1 .. Len(Chapters(state)) :
              /\ OneMarker(MarkerLine, n, book_file)
              /\ RStrip(ContentAfter(MarkerLine, n, book_file))
                    = RStrip(Chapters(state)[n])
        /\ \A n \in (Len(Chapters(state)) + 1) .. (MaxChapters + 1) :
              Occurrences(MarkerLine(n), book_file) = {}

\* The nodes of the chapter loop
ChapterNodes ==
    {"generate_chapter", "human_feedback_on_chapter", "read_chapter_feedback",
     "regenerate_chapter", "generate_chapter_summary_and_update_db",
     "ask_for_next_chapter"}

\* A call to the language model, the spreadsheet or a file has failed
IOFailed == error \in {"GenerationError", "RuntimeError", "SMTPException"}

\* C26: when no I/O fails and the human stops asking for chapters, every
\* run reaches END, through finish; and once the final review or finish has
\* been reached no node of the chapter loop runs again.
C26_RunReachesEnd ==
    /\ <>(IOFailed \/ (node = "END" /\ LastRan("finish")))
    /\ []((\E i \in DOMAIN trace : NodeAt(i) \in FinalStage) => node \notin ChapterNodes)

\* C27: however the calls of get_supabase_client interleave, at most one
\* client is ever created and every call returns that client.
C27_OneSupabaseClient ==
    /\ created <= 1
    /\ \A t, u \in Tasks :
          (tasks[t].pc = "done" /\ tasks[u].pc = "done")
             => tasks[t].returned = tasks[u].returned

====
